---- MODULE Spec2Model ----
(***************************************************************************)
(* EnumString: compile-time generation of enum strings.                    *)
(*                                                                         *)
(* Text is a sequence of one-character strings.  A std::string_view is a   *)
(* record naming the characters it refers to.  The specifications of       *)
(* the module are:                                                         *)
(*   ExtractSpec  toEnumName's search and substring arithmetic, applied to *)
(*                every signature text over a small alphabet;              *)
(*   FixedSpec    FixedString<Size>(ptr) over small character memories;    *)
(*   Spec         a translation unit that instantiates makeEnumString for  *)
(*                a list of enum types, followed by the program's run      *)
(*                (the demonstration main(), or threads calling            *)
(*                makeEnumString); LiveSpec adds thread fairness.          *)
(***************************************************************************)
EXTENDS Integers, Sequences, FiniteSets, TLC

VARIABLES
  \* the translation unit: the enum types it instantiates makeEnumString for,
  \* its driver, and the progress of the translation
  prog, phase, cur, idx,
  \* storage of the variable templates: enumName<T, E> and enumNames<T>, and
  \* how many times each enumNames<T> was initialised
  enumName, enumNames, built,
  \* threads calling makeEnumString at run time
  pc, tsel, local, results,
  \* main() of the demonstration program
  mpc, fruitNames, index, out, exit,
  \* toEnumName applied to a signature text
  sig, sigStart, sigEnd, sigView, sigName, exStage,
  \* FixedString<Size>(mem + ptr), its view, and a comparison with other
  fsMem, fsPtr, fsSize, fsData, fsView, fsOther, fsEqual, fsStage

progVars == << prog, phase, cur, idx, enumName, enumNames, built >>

threadVars == << pc, tsel, local, results >>

mainVars == << mpc, fruitNames, index, out, exit >>

exVars == << sig, sigStart, sigEnd, sigView, sigName, exStage >>

fsVars == << fsMem, fsPtr, fsSize, fsData, fsView, fsOther, fsEqual, fsStage >>

vars == << progVars, threadVars, mainVars, exVars, fsVars >>

\* ---------------------------------------------------------------- bounds
MaxSigLen == 5
MaxStrLen == 4
NThreads == 2
MaxCalls == 3

\* ------------------------------------------------------------------ text
Min(a, b) == IF a < b THEN a ELSE b

SeqsUpTo(A, k) == UNION { [1..m -> A] : m \in 0..k }

\* std::size_t arithmetic is modular.  TLC's integers are 32 bits wide, so the
\* modulus is 2^30 instead of 2^64; every text of the model is far shorter than
\* either, and npos + 1 wraps to 0 under both.
SizeMod == 2^30

npos == SizeMod - 1

\* std::string_view::find_last_of(c): 0-based position of the last c, or npos
find_last_of(s, c) ==
  LET hits == { p \in 0..(Len(s) - 1) : s[p + 1] = c }
  IN  IF hits = {} THEN npos ELSE CHOOSE p \in hits : \A q \in hits : q <= p

\* std::string_view::find_first_of(c, pos): first c at or after pos, or npos
find_first_of(s, c, pos) ==
  LET hits == { p \in 0..(Len(s) - 1) : p >= pos /\ s[p + 1] = c }
  IN  IF hits = {} THEN npos ELSE CHOOSE p \in hits : \A q \in hits : p <= q

OutOfRange == [error |-> "std::out_of_range"]

\* std::string_view::substr(pos, count): pos > size() throws; otherwise the view
\* [pos, pos + min(count, size() - pos))
substr(s, pos, count) ==
  IF pos > Len(s) THEN OutOfRange
  ELSE [ptr |-> pos, size |-> Min(count, Len(s) - pos)]

\* the characters a view into memory mem refers to
ViewText(mem, v) == [k \in 1..v.size |-> mem[v.ptr + k]]

\* ----------------------------------------------------------- FixedString
FixedString_OffByOne(Size, str, ptr) == [k \in 1..Size |-> str[ptr + k + 1]]

\* FixedString<Size>(str): std::copy_n(str, Size, data_), str = mem + ptr
FixedString(Size, mem, ptr) == [k \in 1..Size |-> mem[ptr + k]]

\* FixedString::operator std::string_view: { data_, Size }
FixedStringView(obj, Size) == [obj |-> obj, ptr |-> 0, size |-> Size]

\* operator== of two string views: equal sizes and equal characters
ViewEq(memA, a, memB, b) ==
  /\ a.size = b.size
  /\ \A k \in 1..a.size : memA[a.ptr + k] = memB[b.ptr + k]

\* ------------------------------------------------------------ toEnumName
toEnumName_start_first(funcName) ==
  LET hits == { p \in 0..(Len(funcName) - 1) : funcName[p + 1] = ":" }
  IN  IF hits = {} THEN 0
      ELSE 1 + CHOOSE p \in hits : \A q \in hits : p <= q

toEnumName_start_NoWrap(funcName) == find_last_of(funcName, ":") + 1

toEnumName_start(funcName) == (find_last_of(funcName, ":") + 1) % SizeMod

toEnumName_end(funcName) ==
  find_first_of(funcName, ">", toEnumName_start(funcName))

toEnumName_nameView(funcName) ==
  LET start == toEnumName_start(funcName)
      end == toEnumName_end(funcName)
  IN  substr(funcName, start, (end - start + SizeMod) % SizeMod)

\* FixedString<nameView.size()>{ nameView.data() }
toEnumName(funcName) ==
  LET nameView == toEnumName_nameView(funcName)
  IN  FixedString(nameView.size, funcName, nameView.ptr)

\* ------------------------------------------------------------ enum types
\* An enum declaration: its qualified name, whether it is scoped (enum class),
\* and its enumerators in declaration order, each with its initializer if it has one.
E(id) == [id |-> id, hasInit |-> FALSE, init |-> 0]

EI(id, v) == [id |-> id, hasInit |-> TRUE, init |-> v]

\* enum class Fruit of the demonstration program
Fruit ==
  [name |-> <<"F", "r", "u", "i", "t">>, scoped |-> TRUE,
   members |-> << E(<<"a", "p", "p", "l", "e">>), E(<<"b", "a", "n", "a", "n", "a">>), E(<<"c", "h", "e", "r", "r", "y">>), E(<<"g", "r", "a", "p", "e">>),
                  E(<<"g", "r", "a", "p", "e", "f", "r", "u", "i", "t">>), E(<<"k", "i", "w", "i">>), E(<<"l", "e", "m", "o", "n">>), E(<<"l", "i", "m", "e">>),
                  E(<<"m", "e", "l", "o", "n">>), E(<<"o", "r", "a", "n", "g", "e">>), E(<<"p", "e", "a", "r">>), E(<<"p", "i", "n", "e", "a", "p", "p", "l", "e">>),
                  E(<<"p", "l", "u", "m">>), E(<<"r", "a", "s", "p", "b", "e", "r", "r", "y">>), E(<<"s", "t", "r", "a", "w", "b", "e", "r", "r", "y">>),
                  E(<<"e", "n", "u", "m", "S", "i", "z", "e">>) >>]

\* namespace ui { enum class Color { red, green, enumSize }; }
Color ==
  [name |-> <<"u", "i", ":", ":", "C", "o", "l", "o", "r">>, scoped |-> TRUE,
   members |-> << E(<<"r", "e", "d">>), E(<<"g", "r", "e", "e", "n">>), E(<<"e", "n", "u", "m", "S", "i", "z", "e">>) >>]

\* enum class Empty { enumSize };
Empty ==
  [name |-> <<"E", "m", "p", "t", "y">>, scoped |-> TRUE, members |-> << E(<<"e", "n", "u", "m", "S", "i", "z", "e">>) >>]

\* enum Plain { p, enumSize };   (unscoped)
Plain ==
  [name |-> <<"P", "l", "a", "i", "n">>, scoped |-> FALSE,
   members |-> << E(<<"p">>), E(<<"e", "n", "u", "m", "S", "i", "z", "e">>) >>]

\* enum class NoSize { a, b };
NoSize ==
  [name |-> <<"N", "o", "S", "i", "z", "e">>, scoped |-> TRUE, members |-> << E(<<"a">>), E(<<"b">>) >>]

\* enum class Gapped { a = 1, enumSize };
Gapped ==
  [name |-> <<"G", "a", "p", "p", "e", "d">>, scoped |-> TRUE,
   members |-> << EI(<<"a">>, 1), E(<<"e", "n", "u", "m", "S", "i", "z", "e">>) >>]

\* the value of the k-th enumerator: its initializer, else 0 for the first and
\* one more than the previous enumerator for the others
RECURSIVE EnumValue(_, _)
EnumValue(T, k) ==
  IF T.members[k].hasInit THEN T.members[k].init
  ELSE IF k = 1 THEN 0
  ELSE EnumValue(T, k - 1) + 1

HasMember(T, id) == \E k \in 1..Len(T.members) : T.members[k].id = id

\* std::to_underlying(T::id)
to_underlying(T, id) ==
  EnumValue(T, CHOOSE k \in 1..Len(T.members) : T.members[k].id = id)

SizedEnum_NoScopeCheck(EnumT) == HasMember(EnumT, <<"e", "n", "u", "m", "S", "i", "z", "e">>)

\* concept SizedEnum = std::is_scoped_enum_v<EnumT> and requires { EnumT::enumSize; }
SizedEnum(EnumT) == EnumT.scoped /\ HasMember(EnumT, <<"e", "n", "u", "m", "S", "i", "z", "e">>)

EnumStringArraySize_OneMore(EnumT) == to_underlying(EnumT, <<"e", "n", "u", "m", "S", "i", "z", "e">>) + 1

\* EnumStringArray<EnumT>: std::array<std::string_view, to_underlying(enumSize)>
EnumStringArraySize(EnumT) == to_underlying(EnumT, <<"e", "n", "u", "m", "S", "i", "z", "e">>)

\* ------------------------------------------------------------------- n()
HexDigits == <<"0", "1", "2", "3", "4", "5", "6", "7", "8", "9", "a", "b", "c", "d", "e", "f">>

\* the enumerators of T whose value is v
Named(T, v) == { k \in 1..Len(T.members) : EnumValue(T, k) = v }

\* How the signature spells the template argument static_cast<T>(v): the
\* qualified enumerator when the value has one, the cast spelling otherwise.
ValueSpelling(T, v) ==
  IF Named(T, v) # {}
  THEN LET k == CHOOSE k \in Named(T, v) : \A m \in Named(T, v) : k <= m
       IN  T.name \o <<":", ":">> \o T.members[k].id
  ELSE <<"(", "e", "n", "u", "m", " ">> \o T.name \o <<")", "0", "x">> \o << HexDigits[v + 1] >>

\* n<E>(): std::source_location::current().function_name(), in the form the
\* header documents: "auto __cdecl EnumString::n<Fruit::apple>(void) noexcept"
n(T, v) ==
  <<"a", "u", "t", "o", " ", "_", "_", "c", "d", "e", "c", "l", " ", "E", "n", "u", "m", "S", "t", "r", "i", "n", "g", ":", ":", "n", "<">> \o ValueSpelling(T, v) \o <<">", "(", "v", "o", "i", "d", ")", " ", "n", "o", "e", "x", "c", "e", "p", "t">>

\* ---------------------------------------------------------------- format
Digits == <<"0", "1", "2", "3", "4", "5", "6", "7", "8", "9">>

RECURSIVE Decimal(_)
Decimal(i) ==
  IF i < 10 THEN << Digits[i + 1] >>
  ELSE Decimal(i \div 10) \o << Digits[(i % 10) + 1] >>

RECURSIVE Spaces(_)
Spaces(k) == IF k <= 0 THEN <<>> ELSE <<" ">> \o Spaces(k - 1)

NL == "\n"

FormatEntry_LeftAligned(i, text) ==
  Decimal(i) \o Spaces(2 - Len(Decimal(i))) \o <<":", " ">> \o text

\* std::format("{:2}: {}", index, name): the index right-aligned in a field of
\* at least 2 characters
FormatEntry(i, text) ==
  Spaces(2 - Len(Decimal(i))) \o Decimal(i) \o <<":", " ">> \o text

\* std::println(text): the text and a line feed
println(text) == text \o << NL >>

\* ----------------------------------------------------- translation unit
Threads == 1..NThreads

Program(types, driver) == [types |-> types, driver |-> driver]

\* the translation units explored: the demonstration program, and programs
\* whose threads call makeEnumString for the listed types
Programs ==
  { Program(<< Fruit >>, "demo"),
    Program(<< Color >>, "threads"),
    Program(<< Empty >>, "threads"),
    Program(<< Color, Empty >>, "threads"),
    Program(<< Gapped >>, "threads"),
    Program(<< Plain >>, "threads"),
    Program(<< NoSize >>, "threads"),
    Program(<< Color, Plain >>, "threads") }

EnumT == prog.types[cur]

\* the calls of makeEnumString made so far by the threads 1..k, returned or not
RECURSIVE CallsUpTo(_)
CallsUpTo(k) ==
  IF k = 0 THEN 0
  ELSE CallsUpTo(k - 1) + Len(results[k]) + (IF pc[k] = "copy" THEN 1 ELSE 0)

Calls == CallsUpTo(NThreads)

\* the characters a view into the storage of an enumName<T, E> refers to
NameText(v) == ViewText(enumName[v.obj], v)

TableText(table) == [k \in 1..Len(table) |-> NameText(table[k])]

\* generateEnumNames<EnumT>(index_sequence<0..N-1>): element I is the view of
\* enumName<EnumT, static_cast<EnumT>(I)>
generateEnumNames(j, N) ==
  [k \in 1..N |-> FixedStringView(<< j, k - 1 >>, Len(enumName[<< j, k - 1 >>]))]

ProgInit ==
  /\ prog \in Programs
  /\ phase = "constraint"
  /\ cur = 1
  /\ idx = 0
  /\ enumName = << >>
  /\ enumNames = << >>
  /\ built = [j \in 1..Len(prog.types) |-> 0]
  /\ pc = [t \in Threads |-> "idle"]
  /\ tsel = [t \in Threads |-> 0]
  /\ local = [t \in Threads |-> << >>]
  /\ results = [t \in Threads |-> << >>]
  /\ mpc = "start"
  /\ fruitNames = << >>
  /\ index = 0
  /\ out = << >>
  /\ exit = << >>

\* the constraint of makeEnumString<EnumT>: a violation halts the translation
CheckConstraint ==
  /\ phase = "constraint"
  /\ IF SizedEnum(EnumT) THEN phase' = "names" ELSE phase' = "failed"
  /\ idx' = 0
  /\ UNCHANGED << prog, cur, enumName, enumNames, built >>
  /\ UNCHANGED << threadVars, mainVars, exVars, fsVars >>

\* inline constexpr auto enumName<EnumT, E> = toEnumName<EnumT, E>()
InstantiateEnumName ==
  /\ phase = "names"
  /\ idx < EnumStringArraySize(EnumT)
  /\ enumName' = [a \in DOMAIN enumName \cup { << cur, idx >> } |->
                    IF a = << cur, idx >> THEN toEnumName(n(EnumT, idx))
                    ELSE enumName[a]]
  /\ idx' = idx + 1
  /\ UNCHANGED << prog, phase, cur, enumNames, built >>
  /\ UNCHANGED << threadVars, mainVars, exVars, fsVars >>

\* inline constexpr auto enumNames<EnumT> = generateEnumNames<EnumT>(...)
InstantiateEnumNames ==
  /\ phase = "names"
  /\ idx = EnumStringArraySize(EnumT)
  /\ enumNames' = [j \in DOMAIN enumNames \cup { cur } |->
                     IF j = cur THEN generateEnumNames(cur, idx)
                     ELSE enumNames[j]]
  /\ built' = [built EXCEPT ![cur] = @ + 1]
  /\ IF cur < Len(prog.types)
     THEN cur' = cur + 1 /\ phase' = "constraint"
     ELSE cur' = cur /\ phase' = "runtime"
  /\ UNCHANGED << prog, idx, enumName >>
  /\ UNCHANGED << threadVars, mainVars, exVars, fsVars >>

\* ------------------------------------------------------- makeEnumString
makeEnumString_Call_Rebuild(t, j) ==
  /\ phase = "runtime"
  /\ prog.driver = "threads"
  /\ pc[t] = "idle"
  /\ Calls < MaxCalls
  /\ j \in 1..Len(prog.types)
  /\ pc' = [pc EXCEPT ![t] = "copy"]
  /\ tsel' = [tsel EXCEPT ![t] = j]
  /\ local' = [local EXCEPT ![t] = << >>]
  /\ built' = [built EXCEPT ![j] = @ + 1]
  /\ UNCHANGED << prog, phase, cur, idx, enumName, enumNames, results >>
  /\ UNCHANGED << mainVars, exVars, fsVars >>

\* a thread enters makeEnumString<T>() for the j-th type of the program
makeEnumString_Call(t, j) ==
  /\ phase = "runtime"
  /\ prog.driver = "threads"
  /\ pc[t] = "idle"
  /\ Calls < MaxCalls
  /\ j \in 1..Len(prog.types)
  /\ pc' = [pc EXCEPT ![t] = "copy"]
  /\ tsel' = [tsel EXCEPT ![t] = j]
  /\ local' = [local EXCEPT ![t] = << >>]
  /\ UNCHANGED << progVars, results, mainVars, exVars, fsVars >>

makeEnumString_Copy_Fresh(t) ==
  /\ pc[t] = "copy"
  /\ Len(local[t]) < Len(enumNames[tsel[t]])
  /\ local' = [local EXCEPT ![t] =
       Append(@, [enumNames[tsel[t]][Len(@) + 1] EXCEPT !.obj = << "copy", t, Calls >>])]
  /\ UNCHANGED << progVars, pc, tsel, results, mainVars, exVars, fsVars >>

\* return enumNames<EnumT>: the array is copied element by element
makeEnumString_Copy(t) ==
  /\ pc[t] = "copy"
  /\ Len(local[t]) < Len(enumNames[tsel[t]])
  /\ local' = [local EXCEPT ![t] = Append(@, enumNames[tsel[t]][Len(@) + 1])]
  /\ UNCHANGED << progVars, pc, tsel, results, mainVars, exVars, fsVars >>

\* the caller receives the copy
makeEnumString_Return(t) ==
  /\ pc[t] = "copy"
  /\ Len(local[t]) = Len(enumNames[tsel[t]])
  /\ results' = [results EXCEPT ![t] = Append(@, [type |-> tsel[t], table |-> local[t]])]
  /\ pc' = [pc EXCEPT ![t] = "idle"]
  /\ UNCHANGED << progVars, tsel, local, mainVars, exVars, fsVars >>

ThreadStep(t) == makeEnumString_Copy(t) \/ makeEnumString_Return(t)

\* ------------------------------------------------------------------ main
\* auto fruitNames = EnumString::makeEnumString<Fruit>();
main_makeEnumString ==
  /\ phase = "runtime"
  /\ prog.driver = "demo"
  /\ mpc = "start"
  /\ fruitNames' = enumNames[1]
  /\ mpc' = "header"
  /\ UNCHANGED << progVars, threadVars, index, out, exit, exVars, fsVars >>

\* std::println("List of fruits:\n");
main_Header == println(<<"L", "i", "s", "t", " ", "o", "f", " ", "f", "r", "u", "i", "t", "s", ":">> \o << NL >>)

main_println_Header ==
  /\ mpc = "header"
  /\ out' = out \o main_Header
  /\ index' = 0
  /\ mpc' = "loop"
  /\ UNCHANGED << progVars, threadVars, fruitNames, exit, exVars, fsVars >>

\* for (auto const [index, name] : std::views::enumerate(fruitNames))
\*     std::println("{:2}: {}", index, name);
main_println_Entry ==
  /\ mpc = "loop"
  /\ index < Len(fruitNames)
  /\ out' = out \o println(FormatEntry(index, NameText(fruitNames[index + 1])))
  /\ index' = index + 1
  /\ UNCHANGED << progVars, threadVars, mpc, fruitNames, exit, exVars, fsVars >>

\* main falls off its end: the exit status is 0
main_Return ==
  /\ mpc = "loop"
  /\ index = Len(fruitNames)
  /\ mpc' = "exited"
  /\ exit' = << 0 >>
  /\ UNCHANGED << progVars, threadVars, fruitNames, index, out, exVars, fsVars >>

\* ------------------------------------------------- toEnumName on its own
SigAlphabet == { ":", ">", "a", "b" }

\* the signature the header documents, and one in the bracketed form that ends in "Fruit::apple]"
DocumentedSig == <<"a", "u", "t", "o", " ", "_", "_", "c", "d", "e", "c", "l", " ", "E", "n", "u", "m", "S", "t", "r", "i", "n", "g", ":", ":", "n", "<", "F", "r", "u", "i", "t", ":", ":", "a", "p", "p", "l", "e", ">", "(", "v", "o", "i", "d", ")", " ", "n", "o", "e", "x", "c", "e", "p", "t">>

BracketedSig == <<"c", "o", "n", "s", "t", "e", "x", "p", "r", " ", "a", "u", "t", "o", " ", "E", "n", "u", "m", "S", "t", "r", "i", "n", "g", ":", ":", "n", "(", ")", " ", "[", "w", "i", "t", "h", " ", "a", "u", "t", "o", " ", "E", " ", "=", " ", "F", "r", "u", "i", "t", ":", ":", "a", "p", "p", "l", "e", "]">>

\* the documented form for an enum declared inside a class template
TemplateScopeSig ==
  <<"a", "u", "t", "o", " ", "_", "_", "c", "d", "e", "c", "l", " ", "E", "n", "u", "m", "S", "t", "r", "i", "n", "g", ":", ":", "n", "<", "O", "u", "t", "e", "r", "<", "i", "n", "t", ">", ":", ":", "F", "r", "u", "i", "t", ":", ":", "a", "p", "p", "l", "e", ">", "(", "v", "o", "i", "d", ")", " ", "n", "o", "e", "x", "c", "e", "p", "t">>

Signatures ==
  SeqsUpTo(SigAlphabet, MaxSigLen)
    \cup { DocumentedSig, BracketedSig, TemplateScopeSig }

ExIdle ==
  /\ sig = << >>
  /\ sigStart = 0
  /\ sigEnd = 0
  /\ sigView = [ptr |-> 0, size |-> 0]
  /\ sigName = << >>
  /\ exStage = "idle"

ExInit ==
  /\ sig \in Signatures
  /\ sigStart = 0
  /\ sigEnd = 0
  /\ sigView = [ptr |-> 0, size |-> 0]
  /\ sigName = << >>
  /\ exStage = "signature"

\* start, end and nameView of toEnumName
Extract_Search ==
  /\ exStage = "signature"
  /\ sigStart' = toEnumName_start(sig)
  /\ sigEnd' = toEnumName_end(sig)
  /\ sigView' = toEnumName_nameView(sig)
  /\ exStage' = "view"
  /\ UNCHANGED << sig, sigName, progVars, threadVars, mainVars, fsVars >>

\* the FixedString toEnumName returns
Extract_Return ==
  /\ exStage = "view"
  /\ sigView # OutOfRange
  /\ sigName' = toEnumName(sig)
  /\ exStage' = "returned"
  /\ UNCHANGED << sig, sigStart, sigEnd, sigView, progVars, threadVars, mainVars, fsVars >>

\* --------------------------------------------------- FixedString on its own
MemAlphabet == { "e", "s", "t" }

NUL == "NUL"

\* a string literal: its characters and the terminator
Literal(text) == text \o << NUL >>

Memories ==
  { Literal(text) : text \in SeqsUpTo(MemAlphabet, MaxStrLen) }
    \cup { Literal(<<"n", "a", "m", "e">>), Literal(<<"r", "e", "t", "e", "s", "t", "e", "d">>) }

Others == SeqsUpTo(MemAlphabet, 2) \cup { <<"n", "a", "m", "e">>, <<"t", "e", "s", "t">>, <<"t", "e", "s">>, <<"s", "t", "e">> }

FsIdle ==
  /\ fsMem = << >>
  /\ fsPtr = 0
  /\ fsSize = 0
  /\ fsData = << >>
  /\ fsView = [obj |-> "none", ptr |-> 0, size |-> 0]
  /\ fsOther = << >>
  /\ fsEqual = FALSE
  /\ fsStage = "idle"

\* a memory, a pointer into it, and a Size with at least Size characters from
\* the pointer on
FsInit ==
  /\ fsMem \in Memories
  /\ fsPtr \in 0..(Len(fsMem) - 1)
  /\ fsSize \in 0..(Len(fsMem) - 1 - fsPtr)
  /\ fsData = << >>
  /\ fsView = [obj |-> "none", ptr |-> 0, size |-> 0]
  /\ fsOther = << >>
  /\ fsEqual = FALSE
  /\ fsStage = "argument"

\* FixedString<Size>(mem + ptr)
Fixed_Construct ==
  /\ fsStage = "argument"
  /\ fsData' = FixedString(fsSize, fsMem, fsPtr)
  /\ fsStage' = "constructed"
  /\ UNCHANGED << fsMem, fsPtr, fsSize, fsView, fsOther, fsEqual >>
  /\ UNCHANGED << progVars, threadVars, mainVars, exVars >>

\* operator std::string_view
Fixed_View ==
  /\ fsStage = "constructed"
  /\ fsView' = FixedStringView("data_", fsSize)
  /\ fsStage' = "viewed"
  /\ UNCHANGED << fsMem, fsPtr, fsSize, fsData, fsOther, fsEqual >>
  /\ UNCHANGED << progVars, threadVars, mainVars, exVars >>

\* other == FixedString, as in the header's static_asserts
Fixed_Compare ==
  /\ fsStage = "viewed"
  /\ \E w \in Others \cup { SubSeq(fsMem, fsPtr + 1, fsPtr + fsSize) } :
       /\ fsOther' = w
       /\ fsEqual' = ViewEq(w, [ptr |-> 0, size |-> Len(w)], fsData, fsView)
  /\ fsStage' = "compared"
  /\ UNCHANGED << fsMem, fsPtr, fsSize, fsData, fsView >>
  /\ UNCHANGED << progVars, threadVars, mainVars, exVars >>

\* -------------------------------------------------------- specifications
Init == ProgInit /\ ExIdle /\ FsIdle

Next ==
  \/ CheckConstraint
  \/ InstantiateEnumName
  \/ InstantiateEnumNames
  \/ \E t \in Threads : \E j \in 1..Len(prog.types) : makeEnumString_Call(t, j)
  \/ \E t \in Threads : makeEnumString_Copy(t)
  \/ \E t \in Threads : makeEnumString_Return(t)
  \/ main_makeEnumString
  \/ main_println_Header
  \/ main_println_Entry
  \/ main_Return

Spec == Init /\ [][Next]_vars

\* every thread inside makeEnumString keeps running: it takes no lock and waits
\* for nothing
LiveSpec == Spec /\ \A t \in Threads : WF_vars(ThreadStep(t))

ProgIdle ==
  /\ prog = Program(<< >>, "none")
  /\ phase = "idle"
  /\ cur = 0
  /\ idx = 0
  /\ enumName = << >>
  /\ enumNames = << >>
  /\ built = << >>
  /\ pc = [t \in Threads |-> "idle"]
  /\ tsel = [t \in Threads |-> 0]
  /\ local = [t \in Threads |-> << >>]
  /\ results = [t \in Threads |-> << >>]
  /\ mpc = "idle"
  /\ fruitNames = << >>
  /\ index = 0
  /\ out = << >>
  /\ exit = << >>

ExtractInit == ProgIdle /\ ExInit /\ FsIdle

ExtractNext == Extract_Search \/ Extract_Return

ExtractSpec == ExtractInit /\ [][ExtractNext]_vars

FixedInit == ProgIdle /\ ExIdle /\ FsInit

FixedNext == Fixed_Construct \/ Fixed_View \/ Fixed_Compare

FixedSpec == FixedInit /\ [][FixedNext]_vars

\* ================================================================ claims
Range(f) == { f[x] : x \in DOMAIN f }

\* the value of the sentinel: N
SentinelValue(T) == to_underlying(T, <<"e", "n", "u", "m", "S", "i", "z", "e">>)

FruitNamesExpected ==
  << <<"a", "p", "p", "l", "e">>, <<"b", "a", "n", "a", "n", "a">>, <<"c", "h", "e", "r", "r", "y">>, <<"g", "r", "a", "p", "e">>, <<"g", "r", "a", "p", "e", "f", "r", "u", "i", "t">>, <<"k", "i", "w", "i">>,
     <<"l", "e", "m", "o", "n">>, <<"l", "i", "m", "e">>, <<"m", "e", "l", "o", "n">>, <<"o", "r", "a", "n", "g", "e">>, <<"p", "e", "a", "r">>, <<"p", "i", "n", "e", "a", "p", "p", "l", "e">>,
     <<"p", "l", "u", "m">>, <<"r", "a", "s", "p", "b", "e", "r", "r", "y">>, <<"s", "t", "r", "a", "w", "b", "e", "r", "r", "y">> >>

\* C1: in every table built, element i is exactly the unqualified identifier of
\* the member whose value is i (no type or namespace qualification, nothing
\* around it), so the table is in ascending member-index order; for Fruit the
\* table is apple .. strawberry.
C1_ElementIsMemberIdentifier ==
  \A j \in DOMAIN enumNames :
    LET T == prog.types[j] IN
    /\ \A i \in 0..(SentinelValue(T) - 1) : \A k \in 1..Len(T.members) :
         EnumValue(T, k) = i =>
           /\ i + 1 \in DOMAIN enumNames[j]
           /\ NameText(enumNames[j][i + 1]) = T.members[k].id
    /\ T = Fruit => TableText(enumNames[j]) = FruitNamesExpected

\* a namespace-qualified type whose table holds the bare identifiers
C1_Witness ==
  \E j \in DOMAIN enumNames :
    /\ prog.types[j] = Color
    /\ TableText(enumNames[j]) = << <<"r", "e", "d">>, <<"g", "r", "e", "e", "n">> >>

\* C2: the table of a type whose sentinel has value N has exactly N elements,
\* as has every copy makeEnumString returns; the sentinel alone gives length 0.
C2_TableLengthIsSentinel ==
  /\ \A j \in DOMAIN enumNames : Len(enumNames[j]) = SentinelValue(prog.types[j])
  /\ \A t \in Threads : \A c \in DOMAIN results[t] :
       Len(results[t][c].table) = SentinelValue(prog.types[results[t][c].type])
  /\ mpc # "start" => Len(fruitNames) = 15

\* the sentinel alone: a caller received a table of length 0
C2_Witness ==
  \E t \in Threads : \E c \in DOMAIN results[t] :
    /\ prog.types[results[t][c].type] = Empty
    /\ SentinelValue(Empty) = 0
    /\ results[t][c].table = << >>

\* the types the claim says are rejected
PlainOrUnsized(T) == ~T.scoped \/ ~HasMember(T, <<"e", "n", "u", "m", "S", "i", "z", "e">>)

\* C3: a plain (unscoped) enumeration and an enumeration without enumSize fail
\* the SizedEnum check, and for such a type nothing is produced: no name
\* storage, no table, the translation ends in the constraint violation and the
\* program never runs.
C3_RejectedTypeProducesNothing ==
  \A j \in 1..Len(prog.types) :
    PlainOrUnsized(prog.types[j]) =>
      /\ ~SizedEnum(prog.types[j])
      /\ j \notin DOMAIN enumNames
      /\ \A a \in DOMAIN enumName : a[1] # j
      /\ built[j] = 0
      /\ cur <= j
      /\ (cur = j /\ phase # "constraint") => phase = "failed"
      /\ phase # "runtime"
      /\ \A t \in Threads : pc[t] = "idle" /\ results[t] = << >>
      /\ mpc = "start" /\ out = << >> /\ exit = << >>

\* the translation halted on a plain enumeration that follows an eligible type
C3_Witness ==
  /\ phase = "failed"
  /\ cur = 2
  /\ ~prog.types[cur].scoped
  /\ HasMember(prog.types[cur], <<"e", "n", "u", "m", "S", "i", "z", "e">>)

\* C4: any two calls of makeEnumString for the same type, by any threads and
\* with any calls between them, return the same views (the storage of
\* enumName<T, E>, the same sizes) and so the same contents.
C4_CallsReturnSameStorage ==
  \A t1 \in Threads : \A t2 \in Threads :
    \A a \in DOMAIN results[t1] : \A b \in DOMAIN results[t2] :
      LET ra == results[t1][a]
          rb == results[t2][b]
      IN  ra.type = rb.type =>
            /\ ra.table = rb.table
            /\ \A k \in DOMAIN ra.table : ra.table[k].obj = << ra.type, k - 1 >>
            /\ TableText(ra.table) = TableText(rb.table)

\* one thread called for Color, then for another type, then for Color again
C4_Witness ==
  \E t \in Threads :
    /\ Len(results[t]) = 3
    /\ prog.types[results[t][1].type] = Color
    /\ results[t][2].type # results[t][1].type
    /\ results[t][3].type = results[t][1].type
    /\ Len(results[t][3].table) = 2

\* C5: under every interleaving of the threads' calls, each table is
\* initialised exactly once (before the program runs), no table or name
\* storage changes once it exists, a thread reads only a complete table, every
\* table returned is the whole N-element table, and every call returns.
C5_BuiltOnceImmutableComplete ==
  /\ [](\A j \in DOMAIN built :
          /\ built[j] <= 1
          /\ (j \in DOMAIN enumNames) <=> (built[j] = 1)
          /\ phase = "runtime" => built[j] = 1)
  /\ [][ /\ \A j \in DOMAIN enumNames :
              j \in DOMAIN enumNames' /\ enumNames'[j] = enumNames[j]
         /\ \A a \in DOMAIN enumName :
              a \in DOMAIN enumName' /\ enumName'[a] = enumName[a] ]_vars
  /\ [](\A t \in Threads :
          /\ pc[t] = "copy" =>
               /\ phase = "runtime"
               /\ tsel[t] \in DOMAIN enumNames
               /\ Len(enumNames[tsel[t]]) = SentinelValue(prog.types[tsel[t]])
          /\ \A c \in DOMAIN results[t] :
               /\ results[t][c].table = enumNames[results[t][c].type]
               /\ Len(results[t][c].table) =
                    SentinelValue(prog.types[results[t][c].type]))
  /\ \A t \in Threads : (pc[t] = "copy") ~> (pc[t] = "idle")

\* two threads are inside makeEnumString for the same type at once, one of
\* them part-way through its copy, the other having already received a table
C5_Witness ==
  \E t1 \in Threads : \E t2 \in Threads :
    /\ t1 # t2
    /\ pc[t1] = "copy" /\ pc[t2] = "copy"
    /\ tsel[t1] = tsel[t2]
    /\ 0 < Len(local[t1]) /\ Len(local[t1]) < Len(enumNames[tsel[t1]])
    /\ Len(results[t2]) > 0

\* the positions of the line feeds of an output stream, and the k-th of them
\* (0 for k = 0)
Feeds(stream) == { p \in 1..Len(stream) : stream[p] = NL }

Feed(stream, k) ==
  IF k = 0 THEN 0
  ELSE CHOOSE p \in Feeds(stream) :
         Cardinality({ q \in Feeds(stream) : q < p }) = k - 1

\* the lines of an output stream: the texts its line feeds terminate, and what
\* follows the last line feed if anything does
Lines(stream) ==
  LET nf == Cardinality(Feeds(stream))
      whole == [k \in 1..nf |->
                  SubSeq(stream, Feed(stream, k - 1) + 1, Feed(stream, k) - 1)]
  IN  IF Feed(stream, nf) = Len(stream) THEN whole
      ELSE Append(whole, SubSeq(stream, Feed(stream, nf) + 1, Len(stream)))

FruitLinesExpected ==
  << <<" ", "0", ":", " ", "a", "p", "p", "l", "e">>, <<" ", "1", ":", " ", "b", "a", "n", "a", "n", "a">>, <<" ", "2", ":", " ", "c", "h", "e", "r", "r", "y">>, <<" ", "3", ":", " ", "g", "r", "a", "p", "e">>,
     <<" ", "4", ":", " ", "g", "r", "a", "p", "e", "f", "r", "u", "i", "t">>, <<" ", "5", ":", " ", "k", "i", "w", "i">>, <<" ", "6", ":", " ", "l", "e", "m", "o", "n">>, <<" ", "7", ":", " ", "l", "i", "m", "e">>,
     <<" ", "8", ":", " ", "m", "e", "l", "o", "n">>, <<" ", "9", ":", " ", "o", "r", "a", "n", "g", "e">>, <<"1", "0", ":", " ", "p", "e", "a", "r">>, <<"1", "1", ":", " ", "p", "i", "n", "e", "a", "p", "p", "l", "e">>,
     <<"1", "2", ":", " ", "p", "l", "u", "m">>, <<"1", "3", ":", " ", "r", "a", "s", "p", "b", "e", "r", "r", "y">>, <<"1", "4", ":", " ", "s", "t", "r", "a", "w", "b", "e", "r", "r", "y">> >>

\* C6 as stated: the program's whole output is the header line followed
\* directly by the 15 entry lines, and it exits with status 0.
C6_HeaderThenFifteenLines ==
  mpc = "exited" =>
    /\ Lines(out) = << <<"L", "i", "s", "t", " ", "o", "f", " ", "f", "r", "u", "i", "t", "s", ":">> >> \o FruitLinesExpected
    /\ exit = << 0 >>

\* C6 amended: the program's whole output is the header line, one empty line,
\* and then the 15 entry lines " 0: apple" .. "14: strawberry", every line
\* ended by a line feed; it exits with status 0, and only after printing.
C6_HeaderBlankThenFifteenLines ==
  /\ mpc = "exited" =>
       /\ Lines(out) = << <<"L", "i", "s", "t", " ", "o", "f", " ", "f", "r", "u", "i", "t", "s", ":">>, << >> >> \o FruitLinesExpected
       /\ out # << >> /\ out[Len(out)] = NL
       /\ exit = << 0 >>
  /\ mpc # "exited" => exit = << >>
  /\ mpc = "loop" =>
       Lines(out) = << <<"L", "i", "s", "t", " ", "o", "f", " ", "f", "r", "u", "i", "t", "s", ":">>, << >> >> \o SubSeq(FruitLinesExpected, 1, index)

\* the demonstration program has exited after printing its 17 lines
C6_Witness == mpc = "exited" /\ Len(Lines(out)) = 17 /\ exit = << 0 >>

\* the claim's definition: end is the first '>' of the signature (its length
\* when there is none), start follows the last ':' before that '>'
ClaimEnd(s) ==
  LET hits == { p \in 0..(Len(s) - 1) : s[p + 1] = ">" }
  IN  IF hits = {} THEN Len(s) ELSE CHOOSE p \in hits : \A q \in hits : p <= q

ClaimStart(s) ==
  LET hits == { p \in 0..(ClaimEnd(s) - 1) : s[p + 1] = ":" }
  IN  IF hits = {} THEN 0 ELSE 1 + CHOOSE p \in hits : \A q \in hits : q <= p

ClaimName(s) == SubSeq(s, ClaimStart(s) + 1, ClaimEnd(s))

ColonAfterFirstClose(s) ==
  \E p \in 1..Len(s) : \E q \in 1..Len(s) : p < q /\ s[p] = ">" /\ s[q] = ":"

C8_OnlyWellFormedSignatures ==
  \A a \in DOMAIN enumName :
    LET T == prog.types[a[1]]
        s == n(T, a[2])
        st == toEnumName_start(s)
        en == toEnumName_end(s)
    IN  /\ Named(T, a[2]) # {}
        /\ st < en /\ en < Len(s)
        /\ st >= 1 /\ s[st] = ":" /\ s[en + 1] = ">"
        /\ \E k \in Named(T, a[2]) : SubSeq(s, st + 1, en) = T.members[k].id

\* C9: FixedString<Size>(ptr) holds exactly the Size characters from ptr on
\* (never the terminator), its view has length Size, and the view compares
\* equal to a text exactly when that text is those characters.
C9_FixedStringHoldsExactlySize ==
  /\ fsStage \in { "constructed", "viewed", "compared" } =>
       /\ Len(fsData) = fsSize
       /\ \A k \in 1..fsSize : fsData[k] = fsMem[fsPtr + k]
       /\ NUL \notin Range(fsData)
  /\ fsStage \in { "viewed", "compared" } =>
       /\ fsView.size = fsSize
       /\ ViewText(fsData, fsView) = SubSeq(fsMem, fsPtr + 1, fsPtr + fsSize)
  /\ fsStage = "compared" =>
       (fsEqual <=> (fsOther = SubSeq(fsMem, fsPtr + 1, fsPtr + fsSize)))

\* the header's second static_assert: "test" out of the middle of "retested"
C9_Witness ==
  /\ fsStage = "compared"
  /\ fsMem = Literal(<<"r", "e", "t", "e", "s", "t", "e", "d">>) /\ fsPtr = 2 /\ fsSize = 4
  /\ fsOther = <<"t", "e", "s", "t">>
  /\ fsEqual

NoColon(s) == \A p \in 1..Len(s) : s[p] # ":"

NoCloseFrom(s, pos) == \A p \in 1..Len(s) : p > pos => s[p] # ">"

\* C10: start never exceeds the signature's length and the range extracted
\* lies inside the signature; without a ':' start is 0 and the result is the
\* text before the first '>'; without a '>' at or after start, end is npos and
\* the result is the rest of the signature ("apple]" for the bracketed form).
C10_UncheckedArithmeticStaysInside ==
  exStage \in { "view", "returned" } =>
    /\ sigView # OutOfRange
    /\ sigStart <= Len(sig)
    /\ sigView.ptr = sigStart
    /\ sigView.ptr + sigView.size <= Len(sig)
    /\ NoColon(sig) =>
         /\ sigStart = 0
         /\ ViewText(sig, sigView) = SubSeq(sig, 1, ClaimEnd(sig))
    /\ NoCloseFrom(sig, sigStart) =>
         /\ sigEnd = npos
         /\ ViewText(sig, sigView) = SubSeq(sig, sigStart + 1, Len(sig))
    /\ sig = BracketedSig => ViewText(sig, sigView) = <<"a", "p", "p", "l", "e", "]">>
    /\ exStage = "returned" => sigName = ViewText(sig, sigView)

\* a signature without ':': find_last_of gave npos, start wrapped to 0
C10_Witness ==
  /\ exStage = "returned"
  /\ NoColon(sig)
  /\ find_last_of(sig, ":") = npos
  /\ sigStart = 0
  /\ sigEnd = 2
  /\ sigName = <<"a", "b">>

====
